---- MODULE Spec2Model ----
(***************************************************************************)
(* madrc_tagger.py: rule-based tagging of the scans of one MRI session.   *)
(* main() fetches the scan listing, runs the four rule modules (csx6,     *)
(* wave, adni, diffb0) and then upsert() writes one note per tagged scan. *)
(* Strings are TLA+ strings; the regular expressions, str.strip, the      *)
(* unicode_escape decoding and the f-string formatting are computed on    *)
(* them character by character.                                           *)
(***************************************************************************)
EXTENDS Integers, Sequences, FiniteSets, TLC

VARIABLES scans, args, pc, err, updates, idx, t1w, notes, writes, run, entry, outcomes

vars == <<scans, args, pc, err, updates, idx, t1w, notes, writes, run, entry, outcomes>>

(***************************************************************************)
(* Bounds of the model.                                                    *)
(***************************************************************************)
MaxScans == 3
MaxWaveScans == 5
MaxRuns == 2
MaxUpdates == 3

(***************************************************************************)
(* Strings.                                                                *)
(***************************************************************************)
Char(s, i) == SubSeq(s, i, i)

Digits == {"0", "1", "2", "3", "4", "5", "6", "7", "8", "9"}

Whitespace == {" ", "\t", "\n", "\r"}

DigitValue(c) ==
  CASE c = "0" -> 0 [] c = "1" -> 1 [] c = "2" -> 2 [] c = "3" -> 3 [] c = "4" -> 4
    [] c = "5" -> 5 [] c = "6" -> 6 [] c = "7" -> 7 [] c = "8" -> 8 [] c = "9" -> 9

\* Last index of the run of digits that starts at i (i - 1 when there is none).
RECURSIVE DigitsEnd(_, _)
DigitsEnd(s, i) ==
  IF i <= Len(s) /\ Char(s, i) \in Digits THEN DigitsEnd(s, i + 1) ELSE i - 1

\* str.strip(): leading and trailing whitespace removed.
RECURSIVE lstrip(_)
lstrip(s) == IF Len(s) > 0 /\ Char(s, 1) \in Whitespace THEN lstrip(Tail(s)) ELSE s

RECURSIVE rstrip(_)
rstrip(s) ==
  IF Len(s) > 0 /\ Char(s, Len(s)) \in Whitespace
  THEN rstrip(SubSeq(s, 1, Len(s) - 1)) ELSE s

strip(s) == rstrip(lstrip(s))

\* str.lower() on ASCII letters.
UpperCase == "ABCDEFGHIJKLMNOPQRSTUVWXYZ"
ascii_lowercase == "abcdefghijklmnopqrstuvwxyz"

LowerChar(c) ==
  IF \E k \in 1..Len(UpperCase) : Char(UpperCase, k) = c
  THEN Char(ascii_lowercase, CHOOSE k \in 1..Len(UpperCase) : Char(UpperCase, k) = c)
  ELSE c

RECURSIVE lower(_)
lower(s) == IF Len(s) = 0 THEN s ELSE LowerChar(Char(s, 1)) \o lower(Tail(s))

\* The `in` operator on strings: sub is a substring of s.
Contains(sub, s) ==
  \E i \in 1..(Len(s) - Len(sub) + 1) : SubSeq(s, i, i + Len(sub) - 1) = sub

\* float(digits) as the integer it denotes, and its rendering by an f-string
\* ({vox} and {vox:.1f} agree on a whole number: one decimal, "1.0").
RECURSIVE float(_)
float(d) ==
  IF Len(d) = 0 THEN 0
  ELSE 10 * float(SubSeq(d, 1, Len(d) - 1)) + DigitValue(Char(d, Len(d)))

FloatStr(vox) == ToString(vox) \o ".0"

(***************************************************************************)
(* bytes.decode('unicode_escape') on the image type: a doubled backslash   *)
(* becomes one, a backslash before N that opens no {name} and a backslash  *)
(* at the end are decoding errors, a backslash before a character that     *)
(* starts no escape sequence is kept.                                      *)
(***************************************************************************)
Backslash == "\\"

RECURSIVE unicode_escape(_, _, _)
unicode_escape(s, i, out) ==
  IF i > Len(s) THEN [err |-> "none", text |-> out]
  ELSE IF Char(s, i) # Backslash THEN unicode_escape(s, i + 1, out \o Char(s, i))
  ELSE IF i = Len(s) THEN [err |-> "UnicodeDecodeError", text |-> out]
  ELSE IF Char(s, i + 1) = Backslash THEN unicode_escape(s, i + 2, out \o Backslash)
  ELSE IF Char(s, i + 1) = "N" THEN [err |-> "UnicodeDecodeError", text |-> out]
  ELSE unicode_escape(s, i + 2, out \o Backslash \o Char(s, i + 1))

decode(s) == unicode_escape(s, 1, "")

(***************************************************************************)
(* Regular expressions.  A pattern anchored at both ends is a sequence of  *)
(* elements: a literal, "D+" for \d+, or an optional literal.              *)
(***************************************************************************)
Lit(t) == [kind |-> "lit", text |-> t]
DigitsPlus == [kind |-> "digits", text |-> ""]
Opt(t) == [kind |-> "opt", text |-> t]

LitAt(s, i, t) == i >= 1 /\ i + Len(t) - 1 <= Len(s) /\ SubSeq(s, i, i + Len(t) - 1) = t

RECURSIVE FullMatch(_, _, _, _)
FullMatch(pat, k, s, i) ==
  IF k > Len(pat) THEN i = Len(s) + 1
  ELSE CASE pat[k].kind = "lit" ->
              LitAt(s, i, pat[k].text) /\ FullMatch(pat, k + 1, s, i + Len(pat[k].text))
         [] pat[k].kind = "digits" ->
              \E e \in i..DigitsEnd(s, i) : FullMatch(pat, k + 1, s, e + 1)
         [] pat[k].kind = "opt" ->
              \/ LitAt(s, i, pat[k].text) /\ FullMatch(pat, k + 1, s, i + Len(pat[k].text))
              \/ FullMatch(pat, k + 1, s, i)

\* re.match('.*_(\d+)' + lit, s): the places <<p, e>> where "_" is at p, digits
\* fill p+1..e and lit follows; the greedy .* takes the last one.
Places(s, lit) ==
  UNION {{<<p, e>> : e \in {x \in (p + 1)..DigitsEnd(s, p + 1) : LitAt(s, x + 1, lit)}} :
           p \in {x \in 1..Len(s) : Char(s, x) = "_"}}

Search(s, lit) ==
  LET P == Places(s, lit)
  IN IF P = {} THEN [matched |-> FALSE, group1 |-> "", end |-> 0]
     ELSE LET p == CHOOSE x \in {pe[1] : pe \in P} : \A pe \in P : pe[1] <= x
              e == CHOOSE x \in {pe[2] : pe \in {q \in P : q[1] = p}} :
                     \A pe \in {q \in P : q[1] = p} : pe[2] <= x
          IN [matched |-> TRUE, group1 |-> SubSeq(s, p + 1, e), end |-> e + Len(lit)]

(***************************************************************************)
(* Groups: collections.defaultdict(list), a voxel size -> list of updates  *)
(* mapping that keeps the order in which its keys were first used.         *)
(***************************************************************************)
NoGroups == <<>>

GroupKeys(groups) == {groups[k].vox : k \in 1..Len(groups)}

\* groups[vox], the empty list when vox is not a key yet.
GroupItems(groups, vox) ==
  IF vox \in GroupKeys(groups)
  THEN groups[CHOOSE k \in 1..Len(groups) : groups[k].vox = vox].items
  ELSE <<>>

\* groups[vox].append(item)
GroupAppend(groups, vox, item) ==
  IF vox \in GroupKeys(groups)
  THEN [k \in 1..Len(groups) |->
          IF groups[k].vox = vox
          THEN [groups[k] EXCEPT !.items = Append(@, item)] ELSE groups[k]]
  ELSE Append(groups, [vox |-> vox, items |-> <<item>>])

Update(scan, modality, tag) ==
  [scan |-> scan.id,
   modality |-> modality,
   series_description |-> strip(scan.series_description),
   note |-> strip(scan.note),
   tag |-> tag]

Ok(groups) == [err |-> "none", groups |-> groups]
Raise(e) == [err |-> e, groups |-> NoGroups]

\* string.ascii_lowercase[n]
SuffixAlwaysA(n) == Char(ascii_lowercase, 1)

Suffix(n) == Char(ascii_lowercase, n + 1)

(***************************************************************************)
(* csx6                                                                    *)
(***************************************************************************)
Csx6ExprV1 ==
  <<Lit("WIP925B_"), DigitsPlus, Lit("."), DigitsPlus, Lit("mmCor_"),
    DigitsPlus, Lit("_"), DigitsPlus, Lit("_CSx6")>>

Csx6ExprV2 ==
  <<Lit("WIP19_1mmCor_"), DigitsPlus, Lit("_"), DigitsPlus, Lit("_CSx6")>>

\* A filter's answer: the decoding error it raised, or whether the scan passes.
Filtered(image_type, passes) ==
  [err |-> image_type.err, match |-> image_type.err = "none" /\ passes]

csx6filter_v1(x) ==
  LET image_type == decode(x.image_type)
  IN Filtered(image_type,
       /\ FullMatch(Csx6ExprV1, 1, x.series_description, 1)
       /\ image_type.text = "ORIGINAL\\PRIMARY\\M\\ND\\NORM"
       /\ x.quality = "usable")

csx6filter_v2(x) ==
  LET image_type == decode(x.image_type)
  IN Filtered(image_type,
       /\ FullMatch(Csx6ExprV2, 1, x.series_description, 1)
       /\ image_type.text = "ORIGINAL\\PRIMARY\\M\\NONE"
       /\ x.quality = "usable")

csx6filter(protocol, x) ==
  IF protocol = "v1" THEN csx6filter_v1(x) ELSE csx6filter_v2(x)

\* re.match('.*_(\d+)mmCor_.*', series)
Csx6Match(series) == Search(series, "mmCor_")

Csx6Tag(vox, suffix) == "ANAT_" \o FloatStr(vox) \o "_CSx6_" \o suffix

RECURSIVE csx6Loop(_, _, _, _)
csx6Loop(ss, protocol, k, groups) ==
  IF k > Len(ss) THEN Ok(groups)
  ELSE LET f == csx6filter(protocol, ss[k])
           match == Csx6Match(strip(ss[k].series_description))
           vox == float(match.group1)
           n == Len(GroupItems(groups, vox))
       IN IF f.err # "none" THEN Raise(f.err)
          ELSE IF ~f.match \/ ~match.matched THEN csx6Loop(ss, protocol, k + 1, groups)
          ELSE IF n >= Len(ascii_lowercase) THEN Raise("IndexError")
          ELSE csx6Loop(ss, protocol, k + 1,
                 GroupAppend(groups, vox, Update(ss[k], "t1w", Csx6Tag(vox, Suffix(n)))))

csx6(ss, protocol) == csx6Loop(ss, protocol, 1, NoGroups)

(***************************************************************************)
(* wave                                                                    *)
(***************************************************************************)
WaveExpr == <<Lit("WIP1084C_r3x3_1mm"), Opt("_RR")>>

wavefilter(x) ==
  LET image_type == decode(x.image_type)
  IN Filtered(image_type,
       /\ FullMatch(WaveExpr, 1, x.series_description, 1)
       /\ image_type.text = "ORIGINAL\\PRIMARY\\M\\ND\\NORM"
       /\ x.quality = "usable")

\* re.match('.*_(\d+)mm(_RR)?', series): group 2 is "_RR" when it follows.
WaveMatch(series) ==
  LET m == Search(series, "mm")
  IN [matched |-> m.matched, group1 |-> m.group1,
      is_rr |-> m.matched /\ LitAt(series, m.end + 1, "_RR")]

\* rr_tag += mod
RrTagCountsEvery(rr_tag, mod) == rr_tag + 1

RrTag(rr_tag, mod) == rr_tag + mod

RrRes(mod) == IF mod = 0 THEN "0.0" ELSE "0.1"

WaveTag(vox, is_rr, rr_tag, mod, suffix) ==
  "ANAT_" \o FloatStr(vox) \o "_WAVE"
    \o (IF is_rr THEN "_RR" \o ToString(rr_tag) \o "_" \o RrRes(mod) ELSE "")
    \o "_" \o suffix

RECURSIVE waveLoop(_, _, _, _, _)
waveLoop(ss, k, rr_num, rr_tag, groups) ==
  IF k > Len(ss) THEN Ok(groups)
  ELSE LET f == wavefilter(ss[k])
           match == WaveMatch(strip(ss[k].series_description))
           vox == float(match.group1)
           n == Len(GroupItems(groups, vox))
           num == IF match.is_rr THEN rr_num + 1 ELSE rr_num
           mod == num % 2
           tagno == IF match.is_rr THEN RrTag(rr_tag, mod) ELSE rr_tag
       IN IF f.err # "none" THEN Raise(f.err)
          ELSE IF ~f.match \/ ~match.matched THEN waveLoop(ss, k + 1, rr_num, rr_tag, groups)
          ELSE IF n >= Len(ascii_lowercase) THEN Raise("IndexError")
          ELSE waveLoop(ss, k + 1, num, tagno,
                 GroupAppend(groups, vox,
                   Update(ss[k], "t1w", WaveTag(vox, match.is_rr, tagno, mod, Suffix(n)))))

wave(ss, protocol) == waveLoop(ss, 1, 0, 0, NoGroups)

(***************************************************************************)
(* adni                                                                    *)
(***************************************************************************)
adnifilter_v1(x) ==
  x.series_description = "Accelerated Sagittal MPRAGE (MSV21)" /\ x.quality = "usable"

adnifilter_v2(x) ==
  x.series_description = "Accelerated Sagittal MPRAGE" /\ x.quality = "usable"

adnifilter(protocol, x) == IF protocol = "v1" THEN adnifilter_v1(x) ELSE adnifilter_v2(x)

AdniTag(vox) == "ANAT_" \o vox \o "_ADNI"

RECURSIVE adniLoop(_, _, _, _)
adniLoop(ss, protocol, k, groups) ==
  IF k > Len(ss) THEN Ok(groups)
  ELSE IF ~adnifilter(protocol, ss[k]) THEN adniLoop(ss, protocol, k + 1, groups)
  ELSE adniLoop(ss, protocol, k + 1,
         GroupAppend(groups, ss[k].vox_x, Update(ss[k], "t1w", AdniTag(ss[k].vox_x))))

adni(ss, protocol) == adniLoop(ss, protocol, 1, NoGroups)

(***************************************************************************)
(* diffb0                                                                  *)
(***************************************************************************)
diffb0filter(x) ==
  x.series_description = "CMRR_DiffPA_2mm_4b0" /\ x.quality = "usable"

\* re.match('.*_(\d+)mm_.*', series)
DiffB0Match(series) == Search(series, "mm_")

\* if count > 2: raise DiffB0Error
TooManyB0AfterThree(count) == count > 3

TooManyB0(count) == count > 2

\* suffix = 'Set12' if count == 1 else 'Set34'
SetLabelSwapped(count) == IF count = 1 THEN "Set34" ELSE "Set12"

SetLabel(count) == IF count = 1 THEN "Set12" ELSE "Set34"

DiffB0Tag(vox, suffix) == "DIFF_" \o FloatStr(vox) \o "_4B0_" \o suffix

RECURSIVE diffb0Loop(_, _, _, _)
diffb0Loop(ss, k, count, groups) ==
  IF k > Len(ss) THEN Ok(groups)
  ELSE LET match == DiffB0Match(strip(ss[k].series_description))
           vox == float(match.group1)
       IN IF ~diffb0filter(ss[k]) \/ ~match.matched THEN diffb0Loop(ss, k + 1, count, groups)
          ELSE IF TooManyB0(count) THEN Raise("DiffB0Error")
          ELSE diffb0Loop(ss, k + 1, count + 1,
                 GroupAppend(groups, vox,
                   Update(ss[k], "b0", DiffB0Tag(vox, SetLabel(count)))))

diffb0(ss, protocol) == diffb0Loop(ss, 1, 1, NoGroups)

(***************************************************************************)
(* squeeze: the updates of every module, module by module, voxel size by   *)
(* voxel size, in the order each list was filled.                          *)
(***************************************************************************)
RECURSIVE Flatten(_)
Flatten(groups) ==
  IF Len(groups) = 0 THEN <<>> ELSE Head(groups).items \o Flatten(Tail(groups))

squeeze(u) == Flatten(u.csx6) \o Flatten(u.wave) \o Flatten(u.adni) \o Flatten(u.diffb0)

(***************************************************************************)
(* upsert                                                                  *)
(***************************************************************************)
\* if len(update) > 1: raise UpsertError
TooManyUpdatesIgnored(update) == FALSE

TooManyUpdates(update) == Len(update) > 1

\* if modality.lower() == 't1w': t1w += 1
T1wCountOnlyWritten(count, modality, tag, note) ==
  IF lower(modality) = "t1w" /\ ~Contains(tag, note) THEN count + 1 ELSE count

T1wCount(count, modality, tag, note) ==
  IF lower(modality) = "t1w" THEN count + 1 ELSE count

\* tag not in note
TagNotInNoteAlways(tag, note) == TRUE

TagNotInNote(tag, note) == ~Contains(tag, note)

\* The note to set: the tag, the old note after it unless overwriting, the T1w number.
ComposeNoteAppendOnly(tag, note, overwrite, modality, count) ==
  (IF note # "" THEN tag \o " " \o note ELSE tag)
    \o (IF lower(modality) = "t1w" THEN " #T1w_" \o ToString(count) ELSE "")

ComposeNote(tag, note, overwrite, modality, count) ==
  (IF note # "" /\ ~overwrite THEN tag \o " " \o note ELSE tag)
    \o (IF lower(modality) = "t1w" THEN " #T1w_" \o ToString(count) ELSE "")

\* setnote: an empty text is sent as one blank.
SetNoteText(text) == IF text = "" THEN " " ELSE text

\* if r.status_code != requests.codes.OK: raise SetNoteError
PutRaisesNever(ok) == FALSE

PutRaises(ok) == ~ok

UpdatesFor(sid) ==
  LET Test(x) == x.scan = sid IN SelectSeq(squeeze(updates), Test)

(***************************************************************************)
(* The session in the archive and the scan listing read from it.           *)
(***************************************************************************)
ND_NORM == "ORIGINAL\\\\PRIMARY\\\\M\\\\ND\\\\NORM"
NONE == "ORIGINAL\\\\PRIMARY\\\\M\\\\NONE"
RAW_ND_NORM == "ORIGINAL\\PRIMARY\\M\\ND\\NORM"

Scan(series, image_type, quality, note) ==
  [series_description |-> series, image_type |-> image_type, quality |-> quality,
   note |-> note, vox_x |-> "1.0"]

\* One scan of every rule; csx6 and adni in the spelling of each protocol.
MixedPool ==
  {Scan("WIP19_1mmCor_1_2_CSx6", NONE, "usable", ""),
   Scan("WIP1084C_r3x3_1mm", ND_NORM, "usable", ""),
   Scan("WIP1084C_r3x3_1mm_RR", ND_NORM, "usable", ""),
   Scan("Accelerated Sagittal MPRAGE (MSV21)", ND_NORM, "usable", ""),
   Scan("Accelerated Sagittal MPRAGE", ND_NORM, "usable", ""),
   Scan("CMRR_DiffPA_2mm_4b0", ND_NORM, "usable", "")}

\* csx6 scans of both protocols, near misses of the predicates, and a scan whose
\* image type is not escaped.
Csx6Pool ==
  {Scan("WIP925B_1.0mmCor_1_2_CSx6", ND_NORM, "usable", ""),
   Scan("WIP19_1mmCor_1_2_CSx6", NONE, "usable", ""),
   Scan("WIP19_1mmCor_3_4_CSx6", ND_NORM, "usable", ""),
   Scan("WIP925B_1.0mmCor_3_4_CSx6", ND_NORM, "unusable", ""),
   Scan("localizer", RAW_ND_NORM, "usable", "")}

WavePool ==
  {Scan("WIP1084C_r3x3_1mm", ND_NORM, "usable", ""),
   Scan("WIP1084C_r3x3_1mm_RR", ND_NORM, "usable", ""),
   Scan("WIP1084C_r3x3_1mm_RR", ND_NORM, "unusable", "")}

B0Pool ==
  {Scan("CMRR_DiffPA_2mm_4b0", ND_NORM, "usable", ""),
   Scan("CMRR_DiffPA_2mm_4b0", ND_NORM, "unusable", ""),
   Scan("WIP1084C_r3x3_1mm", ND_NORM, "usable", "foo"),
   Scan("localizer", RAW_ND_NORM, "usable", "")}

\* Scans of three t1w rules and of diffb0, with empty, blank and filled notes.
NotePool ==
  {Scan("WIP19_1mmCor_1_2_CSx6", NONE, "usable", ""),
   Scan("WIP1084C_r3x3_1mm", ND_NORM, "usable", "foo "),
   Scan("Accelerated Sagittal MPRAGE", ND_NORM, "usable", " "),
   Scan("CMRR_DiffPA_2mm_4b0", ND_NORM, "usable", "foo")}

UpsertPool ==
  {Scan("WIP1084C_r3x3_1mm", ND_NORM, "usable", ""),
   Scan("WIP1084C_r3x3_1mm", NONE, "usable", "foo")}

\* The listings of at most n scans drawn from pool; scan k has id "k".
Listings(pool, n) ==
  UNION {{[k \in 1..len |->
             [id |-> ToString(k),
              series_description |-> f[k].series_description,
              image_type |-> f[k].image_type,
              quality |-> f[k].quality,
              note |-> f[k].note,
              vox_x |-> f[k].vox_x]] : f \in [1..len -> pool]} : len \in 1..n}

Args(protocols, overwrites, dry_runs) ==
  [protocol : protocols, overwrite : overwrites, dry_run : dry_runs]

NoUpdates == [csx6 |-> NoGroups, wave |-> NoGroups, adni |-> NoGroups, diffb0 |-> NoGroups]

\* main() is entered with a listing fetched from the archive.
InitMain(listings, argset) ==
  /\ scans \in listings
  /\ args \in argset
  /\ pc = "csx6"
  /\ err = "none"
  /\ updates = NoUpdates
  /\ idx = 0
  /\ t1w = 0
  /\ notes = [k \in 1..Len(scans) |-> scans[k].note]
  /\ writes = <<>>
  /\ run = 1
  /\ entry = "main"
  /\ outcomes = <<>>

\* Append and overwrite under protocol v2, where every scan of NotePool matches a
\* rule, and protocol v1, where the csx6 and adni scans match none.
Init ==
  InitMain(Listings(NotePool, MaxScans),
           {[protocol |-> "v2", overwrite |-> FALSE, dry_run |-> FALSE],
            [protocol |-> "v2", overwrite |-> TRUE, dry_run |-> FALSE],
            [protocol |-> "v1", overwrite |-> FALSE, dry_run |-> FALSE]})

InitMixed ==
  InitMain(Listings(MixedPool, MaxScans), Args({"v1", "v2"}, {FALSE}, {FALSE, TRUE}))

InitCsx6 ==
  InitMain(Listings(Csx6Pool, MaxScans), Args({"v1", "v2"}, {FALSE}, {FALSE}))

InitWave ==
  InitMain(Listings(WavePool, MaxWaveScans), Args({"v1"}, {FALSE}, {FALSE}))

InitB0 ==
  InitMain(Listings(B0Pool, MaxScans), Args({"v1"}, {FALSE}, {FALSE}))

\* upsert() called on a listing with updates of any origin: every sequence of at
\* most MaxUpdates updates, the t1w ones in a wave group and the b0 ones in a
\* diffb0 group.
UpdatePool ==
  {[scan |-> "1", modality |-> "t1w", series_description |-> "WIP1084C_r3x3_1mm",
    note |-> "", tag |-> "ANAT_1.0_WAVE_a"],
   [scan |-> "2", modality |-> "t1w", series_description |-> "WIP1084C_r3x3_1mm",
    note |-> "ANAT_1.0_WAVE_b #T1w_2", tag |-> "ANAT_1.0_WAVE_b"],
   [scan |-> "2", modality |-> "b0", series_description |-> "CMRR_DiffPA_2mm_4b0",
    note |-> "foo", tag |-> "DIFF_2.0_4B0_Set12"]}

GroupOf(vox, items) == IF items = <<>> THEN NoGroups ELSE <<[vox |-> vox, items |-> items]>>

UpdatesOf(us) ==
  LET IsT1w(x) == x.modality = "t1w"
      IsB0(x) == x.modality = "b0"
  IN [csx6 |-> NoGroups,
      wave |-> GroupOf(1, SelectSeq(us, IsT1w)),
      adni |-> NoGroups,
      diffb0 |-> GroupOf(2, SelectSeq(us, IsB0))]

InitUpsert ==
  /\ scans \in Listings(UpsertPool, MaxScans)
  /\ args \in Args({"v1"}, {FALSE}, {FALSE})
  /\ pc = "upsert"
  /\ err = "none"
  /\ updates \in {UpdatesOf(us) : us \in UNION {[1..n -> UpdatePool] : n \in 0..MaxUpdates}}
  /\ idx = 1
  /\ t1w = 0
  /\ notes = [k \in 1..Len(scans) |-> scans[k].note]
  /\ writes = <<>>
  /\ run = 1
  /\ entry = "upsert"
  /\ outcomes = <<>>

(***************************************************************************)
(* main: the four rule modules in the order of the dict literal, each      *)
(* either raising or storing its groups.                                   *)
(***************************************************************************)
Fail(e) ==
  /\ pc' = "error"
  /\ err' = e

Csx6Step ==
  /\ pc = "csx6"
  /\ LET r == csx6(scans, args.protocol)
     IN IF r.err # "none"
        THEN Fail(r.err) /\ UNCHANGED updates
        ELSE /\ updates' = [updates EXCEPT !.csx6 = r.groups]
             /\ pc' = "wave"
             /\ UNCHANGED err
  /\ UNCHANGED <<scans, args, idx, t1w, notes, writes, run, entry, outcomes>>

WaveStep ==
  /\ pc = "wave"
  /\ LET r == wave(scans, args.protocol)
     IN IF r.err # "none"
        THEN Fail(r.err) /\ UNCHANGED updates
        ELSE /\ updates' = [updates EXCEPT !.wave = r.groups]
             /\ pc' = "adni"
             /\ UNCHANGED err
  /\ UNCHANGED <<scans, args, idx, t1w, notes, writes, run, entry, outcomes>>

AdniStep ==
  /\ pc = "adni"
  /\ LET r == adni(scans, args.protocol)
     IN /\ updates' = [updates EXCEPT !.adni = r.groups]
        /\ pc' = "diffb0"
  /\ UNCHANGED <<scans, args, err, idx, t1w, notes, writes, run, entry, outcomes>>

\* The last module; upsert follows unless --dry-run.
Diffb0Step ==
  /\ pc = "diffb0"
  /\ LET r == diffb0(scans, args.protocol)
     IN IF r.err # "none"
        THEN Fail(r.err) /\ UNCHANGED <<updates, idx, t1w>>
        ELSE /\ updates' = [updates EXCEPT !.diffb0 = r.groups]
             /\ pc' = IF args.dry_run THEN "done" ELSE "upsert"
             /\ idx' = 1
             /\ t1w' = 0
             /\ UNCHANGED err
  /\ UNCHANGED <<scans, args, notes, writes, run, entry, outcomes>>

\* One iteration of upsert's loop over the scans.
UpsertScan ==
  /\ pc = "upsert"
  /\ idx <= Len(scans)
  /\ LET update == UpdatesFor(scans[idx].id)
         u == update[Len(update)]
         note == strip(u.note)
         tag == strip(u.tag)
         modality == strip(u.modality)
         count == T1wCount(t1w, modality, tag, note)
         text == SetNoteText(ComposeNote(tag, note, args.overwrite, modality, count))
     IN IF Len(update) = 0
        THEN /\ idx' = idx + 1
             /\ UNCHANGED <<pc, err, t1w, notes, writes>>
        ELSE IF TooManyUpdates(update)
        THEN /\ Fail("UpsertError")
             /\ UNCHANGED <<idx, t1w, notes, writes>>
        ELSE IF ~TagNotInNote(tag, note)
        THEN /\ idx' = idx + 1
             /\ t1w' = count
             /\ UNCHANGED <<pc, err, notes, writes>>
        ELSE \E ok \in BOOLEAN :
               /\ writes' = Append(writes, [run |-> run, pos |-> idx, text |-> text, ok |-> ok])
               /\ notes' = IF ok THEN [notes EXCEPT ![idx] = text] ELSE notes
               /\ t1w' = count
               /\ IF PutRaises(ok)
                  THEN Fail("SetNoteError") /\ UNCHANGED idx
                  ELSE idx' = idx + 1 /\ UNCHANGED <<pc, err>>
  /\ UNCHANGED <<scans, args, updates, run, entry, outcomes>>

\* The loop is over: upsert and main return.
UpsertReturn ==
  /\ pc = "upsert"
  /\ idx > Len(scans)
  /\ pc' = "done"
  /\ UNCHANGED <<scans, args, err, updates, idx, t1w, notes, writes, run, entry, outcomes>>

\* The program is run again on the session, with the same arguments: the listing
\* is fetched anew and carries the notes the archive now holds.
Main ==
  /\ pc \in {"done", "error"}
  /\ run < MaxRuns
  /\ scans' = [k \in 1..Len(scans) |-> [scans[k] EXCEPT !.note = notes[k]]]
  /\ outcomes' = Append(outcomes, IF pc = "done" THEN "done" ELSE err)
  /\ run' = run + 1
  /\ entry' = "main"
  /\ pc' = "csx6"
  /\ err' = "none"
  /\ updates' = NoUpdates
  /\ idx' = 0
  /\ t1w' = 0
  /\ UNCHANGED <<args, notes, writes>>

\* One invocation of the program.
Run ==
  \/ Csx6Step
  \/ WaveStep
  \/ AdniStep
  \/ Diffb0Step
  \/ UpsertScan
  \/ UpsertReturn

\* Invocations one after another.
Next ==
  \/ Csx6Step
  \/ WaveStep
  \/ AdniStep
  \/ Diffb0Step
  \/ UpsertScan
  \/ UpsertReturn
  \/ Main

Spec == Init /\ [][Next]_vars

SpecMixed == InitMixed /\ [][Run]_vars

SpecCsx6 == InitCsx6 /\ [][Run]_vars

SpecWave == InitWave /\ [][Run]_vars

SpecB0 == InitB0 /\ [][Run]_vars

SpecUpsert == InitUpsert /\ [][Next]_vars

(***************************************************************************)
(* Vocabulary of the properties.                                           *)
(***************************************************************************)
\* How far main has come: the number of rule modules that have returned.
Stage ==
  CASE pc = "csx6" -> 0
    [] pc = "wave" -> 1
    [] pc = "adni" -> 2
    [] pc = "diffb0" -> 3
    [] pc \in {"upsert", "done"} -> 4
    [] pc = "error" /\ err \in {"SetNoteError", "UpsertError"} -> 4
    [] pc = "error" /\ err = "DiffB0Error" -> 3
    [] OTHER -> 0

Classified(n) == entry = "main" /\ Stage >= n

\* The positions of the listing that satisfy Test, in order.
Positions(Test(_)) ==
  LET Holds(p) == Test(scans[p]) IN SelectSeq([p \in 1..Len(scans) |-> p], Holds)

\* The scans upsert's loop has dealt with in this run.
Processed ==
  IF pc \in {"upsert", "done"} THEN 1..(idx - 1)
  ELSE IF pc = "error" /\ err = "SetNoteError" THEN 1..idx
  ELSE {}

\* The requests of this run that set the note of the scan at position p.
RunWrites(p) == {k \in 1..Len(writes) : writes[k].run = run /\ writes[k].pos = p}

EndsWith(s, t) == Len(t) <= Len(s) /\ SubSeq(s, Len(s) - Len(t) + 1, Len(s)) = t

Letter(k) == Char(ascii_lowercase, k)

\* The number of scans at or before position p that an update classifies as t1w.
T1wOrdinal(p) ==
  Cardinality({q \in 1..p :
     \E j \in 1..Len(squeeze(updates)) :
        /\ squeeze(updates)[j].scan = scans[q].id
        /\ squeeze(updates)[j].modality = "t1w"})

(***************************************************************************)
(* C1: under either protocol every scan that satisfies the csx6 predicate  *)
(* gets exactly one update of the csx6 group, tagged                       *)
(* ANAT_{voxel}_CSx6_{letter}, the letters a, b, ... in encounter order    *)
(* for each voxel size; the v1 scan "WIP925B_1.0mmCor_1_2_CSx6" is tagged  *)
(* ANAT_1.0_CSx6_a.                                                        *)
(***************************************************************************)
C1_Voxel(series) ==
  IF LitAt(series, 1, "WIP19_1mmCor_") THEN "1.0"
  ELSE SubSeq(series, 9, DigitsEnd(series, DigitsEnd(series, 9) + 2))

C1_Csx6MatchesTagged ==
  Classified(1) =>
    LET Passes(x) == csx6filter(args.protocol, x).match
        M == Positions(Passes)
        U == Flatten(updates.csx6)
        Vox(k) == C1_Voxel(scans[M[k]].series_description)
        Nth(k) == Cardinality({j \in 1..k : Vox(j) = Vox(k)})
    IN /\ Len(U) = Len(M)
       /\ \A k \in 1..Len(M) :
            /\ Cardinality({j \in 1..Len(U) : U[j].scan = scans[M[k]].id}) = 1
            /\ \A j \in 1..Len(U) :
                 U[j].scan = scans[M[k]].id =>
                   U[j].tag = "ANAT_" \o Vox(k) \o "_CSx6_" \o Letter(Nth(k))

(***************************************************************************)
(* C2: the k-th wave match is tagged ANAT_1.0_WAVE[_RR{n}_{label}]_{letter}*)
(* with the k-th letter; for the r-th retro-recon match the label is 0.1   *)
(* for odd r and 0.0 for even r, and matches that are not retro-recon      *)
(* advance neither.  As amended n is 1,1,2,2 for r = 1,2,3,4 (r+1 div 2);  *)
(* as first stated it was 0,1,1,2 (r div 2).                               *)
(***************************************************************************)
C2_IsRR(x) == EndsWith(x.series_description, "_RR")

C2_WaveTags(Counter(_)) ==
  Classified(2) =>
    LET Passes(x) == wavefilter(x).match
        M == Positions(Passes)
        U == Flatten(updates.wave)
        R(k) == Cardinality({j \in 1..k : C2_IsRR(scans[M[j]])})
    IN /\ Len(U) = Len(M)
       /\ \A k \in 1..Len(M) :
            /\ U[k].scan = scans[M[k]].id
            /\ U[k].tag =
                 IF C2_IsRR(scans[M[k]])
                 THEN "ANAT_1.0_WAVE_RR" \o ToString(Counter(R(k))) \o "_"
                        \o (IF R(k) % 2 = 1 THEN "0.1" ELSE "0.0") \o "_" \o Letter(k)
                 ELSE "ANAT_1.0_WAVE_" \o Letter(k)

C2_PairNumber(r) == (r + 1) \div 2

C2_HalfNumber(r) == r \div 2

C3_T1wNumbering ==
  /\ pc = "upsert" => t1w = T1wOrdinal(idx - 1)
  /\ \A p \in Processed : \A k \in RunWrites(p) :
       LET u == UpdatesFor(scans[p].id)[1]
       IN IF u.modality = "t1w"
          THEN EndsWith(writes[k].text, " #T1w_" \o ToString(T1wOrdinal(p)))
          ELSE ~Contains("#T1w_", writes[k].text)

\* Three t1w scans of three modules; the first already carries its tag and is not
\* written, the others are written as number 2 and number 3.
C3_ThreeModules ==
  /\ pc = "done"
  /\ Len(Flatten(updates.csx6)) = 1
  /\ Len(Flatten(updates.wave)) = 1
  /\ Len(Flatten(updates.adni)) = 1
  /\ RunWrites(1) = {}
  /\ \E k \in RunWrites(2) : EndsWith(writes[k].text, " #T1w_2")
  /\ \E k \in RunWrites(3) : EndsWith(writes[k].text, " #T1w_3")

(***************************************************************************)
(* C4: a run that follows a run whose upsert returned sets no note: a      *)
(* request is made in a later run only if the run before it was cut short  *)
(* by an error.                                                            *)
(***************************************************************************)
C4_Idempotent ==
  \A k \in 1..Len(writes) : writes[k].run > 1 => outcomes[writes[k].run - 1] # "done"

C4_SecondPassSilent ==
  /\ run = 2
  /\ pc = "done"
  /\ outcomes = <<"done">>
  /\ Len(writes) = Len(scans)
  /\ Len(scans) = MaxScans

(***************************************************************************)
(* C5: within one group (one rule module, one voxel size) no two updates   *)
(* carry the same tag.  As amended this is said of csx6, wave and diffb0;  *)
(* as first stated it was said of adni too.                                *)
(***************************************************************************)
C5_Distinct(groups) ==
  \A g \in 1..Len(groups) : \A i, j \in 1..Len(groups[g].items) :
     i # j => groups[g].items[i].tag # groups[g].items[j].tag

C5_SuffixedTagsDistinct ==
  /\ C5_Distinct(updates.csx6)
  /\ C5_Distinct(updates.wave)
  /\ C5_Distinct(updates.diffb0)

C5_AllTagsDistinct ==
  /\ C5_Distinct(updates.csx6)
  /\ C5_Distinct(updates.wave)
  /\ C5_Distinct(updates.adni)
  /\ C5_Distinct(updates.diffb0)

C5_SharedVoxel ==
  /\ Classified(4)
  /\ \E g \in 1..Len(updates.wave) : Len(updates.wave[g].items) = MaxScans

(***************************************************************************)
(* C6: on a listing with three or more diffb0 matches the diffb0 module    *)
(* raises DiffB0Error instead of returning groups, the run never reaches   *)
(* upsert, and no request to set a note is made.                           *)
(***************************************************************************)
B0Matches == Positions(diffb0filter)

C6_ExcessB0Halts ==
  Len(B0Matches) >= 3 =>
    /\ diffb0(scans, args.protocol).err = "DiffB0Error"
    /\ pc \notin {"upsert", "done"}
    /\ writes = <<>>
    /\ notes = [k \in 1..Len(scans) |-> scans[k].note]

C6_ThirdB0Raised ==
  /\ Len(B0Matches) >= 3
  /\ pc = "error"
  /\ err = "DiffB0Error"

(***************************************************************************)
(* C7: with exactly two diffb0 matches the diffb0 group holds exactly two  *)
(* updates of modality b0, the earlier scan tagged DIFF_2.0_4B0_Set12 and  *)
(* the later one DIFF_2.0_4B0_Set34; with exactly one match it holds one   *)
(* update tagged DIFF_2.0_4B0_Set12.                                       *)
(***************************************************************************)
C7_SetLabels ==
  Classified(4) /\ Len(B0Matches) <= 2 =>
    LET U == Flatten(updates.diffb0)
    IN /\ Len(U) = Len(B0Matches)
       /\ \A k \in 1..Len(U) :
            /\ U[k].scan = scans[B0Matches[k]].id
            /\ U[k].modality = "b0"
            /\ U[k].tag = IF k = 1 THEN "DIFF_2.0_4B0_Set12" ELSE "DIFF_2.0_4B0_Set34"

C7_TwoB0 ==
  /\ Classified(4)
  /\ B0Matches = <<1, 3>>
  /\ Len(Flatten(updates.diffb0)) = 2

(***************************************************************************)
(* C8: for a scan dealt with by upsert and carried by exactly one update,  *)
(* a note is set if and only if the scan's note does not contain the tag;  *)
(* the note set is the tag, then a blank and the stripped old note when    *)
(* appending to a note that is not blank, then " #T1w_{n}" exactly when    *)
(* the update's modality is t1w.                                           *)
(***************************************************************************)
C8_Expected(u, p) ==
  u.tag
    \o (IF ~args.overwrite /\ strip(scans[p].note) # ""
        THEN " " \o strip(scans[p].note) ELSE "")
    \o (IF u.modality = "t1w" THEN " #T1w_" \o ToString(T1wOrdinal(p)) ELSE "")

C8_NoteComposed ==
  \A p \in Processed :
     LET U == UpdatesFor(scans[p].id)
     IN Len(U) = 1 =>
          /\ (RunWrites(p) # {}) <=> ~Contains(U[1].tag, scans[p].note)
          /\ \A k \in RunWrites(p) : writes[k].text = C8_Expected(U[1], p)

\* An overwritten b0 note, an overwritten t1w note and a t1w scan with a blank note.
C8_Overwritten ==
  /\ args.overwrite
  /\ pc = "done"
  /\ \E k \in RunWrites(1) : writes[k].text = "DIFF_2.0_4B0_Set12" /\ scans[1].note = "foo"
  /\ \E k \in RunWrites(2) : writes[k].text = "ANAT_1.0_WAVE_a #T1w_1"
  /\ \E k \in RunWrites(3) : writes[k].text = "ANAT_1.0_ADNI #T1w_2"

(***************************************************************************)
(* C9: upsert sets a note only for a scan whose identifier is carried by   *)
(* exactly one update; it raises UpsertError at the first scan carried by  *)
(* more than one, setting no note for it; and the rule modules produce     *)
(* updates only for scans that satisfy a rule predicate, so that a scan    *)
(* satisfying none is never written.                                       *)
(***************************************************************************)
C9_MatchesRule(x) ==
  \/ csx6filter(args.protocol, x).match
  \/ wavefilter(x).match
  \/ adnifilter(args.protocol, x)
  \/ diffb0filter(x)

C9_OnlyUnambiguousWritten ==
  /\ \A p \in 1..Len(scans) :
       RunWrites(p) # {} => Len(UpdatesFor(scans[p].id)) = 1
  /\ pc = "error" /\ err = "UpsertError" =>
       Len(UpdatesFor(scans[idx].id)) > 1 /\ RunWrites(idx) = {}
  /\ Stage = 4 => \A p \in 1..(idx - 1) : Len(UpdatesFor(scans[p].id)) <= 1
  /\ entry = "main" =>
       /\ \A j \in 1..Len(squeeze(updates)) :
            \E p \in 1..Len(scans) :
               scans[p].id = squeeze(updates)[j].scan /\ C9_MatchesRule(scans[p])
       /\ \A p \in 1..Len(scans) : RunWrites(p) # {} => C9_MatchesRule(scans[p])

\* The first scan, carried by one update, was written; the second, carried by
\* two, stopped upsert.
C9_Ambiguous ==
  /\ pc = "error"
  /\ err = "UpsertError"
  /\ idx = 2
  /\ RunWrites(1) # {}

(***************************************************************************)
(* C10: the requests of a run are made in the order of the listing, at     *)
(* most one per scan; a request that fails is the last of its run and      *)
(* leaves the run stopped on SetNoteError; every request that succeeded    *)
(* stays applied in the archive.                                           *)
(***************************************************************************)
C10_WriteOrder ==
  /\ \A i, j \in 1..Len(writes) :
       i < j /\ writes[i].run = writes[j].run => writes[i].pos < writes[j].pos
  /\ \A i \in 1..Len(writes) :
       ~writes[i].ok =>
         /\ i < Len(writes) => writes[i + 1].run > writes[i].run
         /\ writes[i].run = run => pc = "error" /\ err = "SetNoteError"
  /\ \A i \in 1..Len(writes) : writes[i].ok => notes[writes[i].pos] = writes[i].text

\* The first note is set, the second request fails, the third scan is left as it was
\* although an update was waiting for it.
C10_HaltedMidway ==
  /\ Len(scans) = 3
  /\ run = 1
  /\ pc = "error"
  /\ err = "SetNoteError"
  /\ Len(writes) = 2
  /\ writes[1].ok /\ writes[1].pos = 1 /\ notes[1] = writes[1].text
  /\ ~writes[2].ok /\ writes[2].pos = 2
  /\ Len(UpdatesFor(scans[3].id)) = 1
  /\ ~Contains(UpdatesFor(scans[3].id)[1].tag, notes[3])

====
